---- MODULE Spec2Model ----
(***************************************************************************)
(* kid3-tag-copy: the bulk tag-transfer routine copy_and_paste_tags_bulk,  *)
(* its three callers (a direct library call, cli_mode, the GUI's Worker)   *)
(* and the start-up sequence of main, as a state machine.                   *)
(*                                                                         *)
(* A call of copy_and_paste_tags_bulk is a frame of the sequence `calls`;   *)
(* its steps are the statements of the function.  The external tool is the  *)
(* environment: whether the process can be spawned, its exit status and the *)
(* bytes it writes to stderr are chosen nondeterministically.               *)
(***************************************************************************)
EXTENDS Integers, Sequences, FiniteSets, TLC

VARIABLES
    ppc,          \* position of the main thread
    exitStatus,   \* status the process ended with, -1 while it runs
    toolOnPath,   \* shutil.which("kid3-cli") is not None, at start-up
    args,         \* argparse result: [src, dst], <<>> for an absent option
    calls,        \* the calls of copy_and_paste_tags_bulk, in start order
    src_list,     \* TagCopyApp.src_list items
    dst_list,     \* TagCopyApp.dst_list items
    run_btn,      \* TagCopyApp.run_btn.isEnabled()
    progress,     \* TagCopyApp.progress: "none", "shown" or "hidden"
    modal,        \* the QMessageBoxes being executed, innermost last
    evq,          \* queued signal deliveries to the GUI thread
    log           \* TagCopyApp.log: colour of its last line, "" when empty

vars == <<ppc, exitStatus, toolOnPath, args, calls, src_list, dst_list,
          run_btn, progress, modal, evq, log>>

guiVars == <<src_list, dst_list, run_btn, progress, modal, evq, log>>

----------------------------------------------------------------------------
(* Bounds *)

\* longest source / destination sequence handed to the program
MaxN == 2

\* Worker threads that may be inside run() at once
MaxWorkers == 2

----------------------------------------------------------------------------
(* Paths.  A path is the sequence of its components; an absolute path      *)
(* starts with the root "/".                                                *)

Cwd == <<"/", "home">>

\* the paths a caller may pass: a relative one and an absolute one with ".."
InputPaths == { <<"a.mp3">>, <<"/", "music", "x", "..", "b.mp3">> }

IsAbsolute(p) == Len(p) > 0 /\ p[1] = "/"

Front(s) == SubSeq(s, 1, Len(s) - 1)

Last(s) == s[Len(s)]

RECURSIVE Normalize(_, _)
\* fold the components of `rest` onto the normalised prefix `acc`
Normalize(acc, rest) ==
    IF rest = <<>> THEN acc
    ELSE LET c == Head(rest) IN
         IF c = "." THEN Normalize(acc, Tail(rest))
         ELSE IF c = ".."
              THEN Normalize(IF Len(acc) > 1 THEN Front(acc) ELSE acc, Tail(rest))
              ELSE Normalize(Append(acc, c), Tail(rest))

\* Path(f).resolve(): absolute, "." and ".." folded (no symlinks in the model)
Resolve(p) ==
    IF IsAbsolute(p) THEN Normalize(<<"/">>, Tail(p))
    ELSE Normalize(Cwd, p)

\* Path.parent and Path.name of a resolved path
Parent(p) == IF Len(p) > 1 THEN Front(p) ELSE p

Name(p) == IF Len(p) > 1 THEN Last(p) ELSE ""

SeqsUpTo(S, n) == UNION { [1..m -> S] : m \in 0..n }

ResolveAll(fs) == [j \in 1..Len(fs) |-> Resolve(fs[j])]

----------------------------------------------------------------------------
(* The external tool *)

\* bytes the tool may leave on stderr: nothing, ASCII "fn", the byte 0xFF
StderrBytes == { <<>>, <<102, 110>>, <<255>> }

ExitCodes == {0, 1}

\* OSError subclasses subprocess.run raises when the process cannot start
SpawnErrors == {"FileNotFoundError", "PermissionError"}

\* bytes.decode(): strict UTF-8.  Over the byte alphabet above a sequence is
\* valid exactly when every byte is ASCII (0xFF starts no UTF-8 sequence).
Utf8Valid(b) == \A j \in 1..Len(b) : b[j] < 128

Chr(c) == CASE c = 102 -> "f" [] c = 110 -> "n" [] OTHER -> "?"

Utf8Decode(b) == [j \in 1..Len(b) |-> Chr(b[j])]

\* one "-c <command>" argument of kid3-cli: a verb and its quoted operand
Command(verb, operand) == [verb |-> verb, operand |-> operand]

NoCmd == [prog |-> "", commands |-> <<>>]

\* the kid3-cli command line of one pair: the program and its -c arguments
BuildCmd(src_file, dst_file) ==
    [prog |-> "kid3-cli",
     commands |-> << Command("cd", Parent(src_file)),
                     Command("select", <<Name(src_file)>>),
                     Command("copy", <<>>),
                     Command("cd", Parent(dst_file)),
                     Command("select", <<Name(dst_file)>>),
                     Command("paste", <<>>),
                     Command("save", <<>>) >>]

----------------------------------------------------------------------------
(* Reports: what one log_func(message, success=...) call hands over *)

Report(kind, pair, success, src, dst, cmd, text, synth) ==
    [kind |-> kind, pair |-> pair, success |-> success, src |-> src,
     dst |-> dst, cmd |-> cmd, text |-> text, synth |-> synth]

CountMismatchReport == Report("error_count", 0, FALSE, <<>>, <<>>, NoCmd, <<>>, FALSE)

CopyingReport(i, s, d) == Report("copying", i, TRUE, s, d, NoCmd, <<>>, FALSE)

RunningReport(i, cmd) == Report("running", i, TRUE, <<>>, <<>>, cmd, <<>>, FALSE)

CopiedReport(i, cmd) == Report("copied", i, TRUE, <<>>, <<>>, cmd, <<>>, FALSE)

\* stderr = e.stderr.decode() if e.stderr else str(e)
PairErrorReport(i, cmd, stderr) ==
    IF stderr # <<>>
    THEN Report("error_pair", i, FALSE, <<>>, <<>>, NoCmd, Utf8Decode(stderr), FALSE)
    ELSE Report("error_pair", i, FALSE, <<>>, <<>>, cmd, <<>>, TRUE)

----------------------------------------------------------------------------
(* Frames of copy_and_paste_tags_bulk *)

\* log_func is "print" (the default), "callback" (a caller's function of
\* message and success) or "signal" (the Worker's lambda emitting log_signal)
NewCall(owner, source_files, dest_files, log_func) ==
    [owner |-> owner, source_files |-> source_files, dest_files |-> dest_files,
     log_func |-> log_func, src_files |-> <<>>, dst_files |-> <<>>,
     pc |-> "entry", i |-> 1, cmd |-> NoCmd, reports |-> <<>>, invs |-> <<>>,
     fault |-> "none"]

Raise(f, exc) == [f EXCEPT !.pc = "raised", !.fault = exc]

\* print() takes no keyword `success`: the call raises before printing
AcceptsSuccessKeyword(log_func) == log_func # "print"

\* log_func(message, success=...), then control moves to `next`
LogFunc(f, rep, next) ==
    IF AcceptsSuccessKeyword(f.log_func)
    THEN [f EXCEPT !.reports = Append(@, rep), !.pc = next]
    ELSE Raise(f, "TypeError")

\* lines 18-24: the count check, then both lists resolved
BulkEntry(f) ==
    IF Len(f.source_files) # Len(f.dest_files)
    THEN LogFunc(f, CountMismatchReport, "returned")
    ELSE [f EXCEPT !.src_files = ResolveAll(f.source_files),
                   !.dst_files = ResolveAll(f.dest_files),
                   !.pc = "loop"]

\* line 26-27: the next pair of zip(src_files, dst_files), announced
BulkLoop(f) ==
    IF f.i > Len(f.src_files) \/ f.i > Len(f.dst_files)
    THEN [f EXCEPT !.pc = "returned"]
    ELSE LogFunc(f, CopyingReport(f.i, f.src_files[f.i], f.dst_files[f.i]), "built")

\* BulkBuild without the "Running:" line of line 41
BulkBuild_NoRunningLine(f) ==
    [f EXCEPT !.cmd = BuildCmd(f.src_files[f.i], f.dst_files[f.i]), !.pc = "run"]

\* lines 30-41: the command built and logged
BulkBuild(f) ==
    LET cmd == BuildCmd(f.src_files[f.i], f.dst_files[f.i]) IN
    LogFunc([f EXCEPT !.cmd = cmd], RunningReport(f.i, cmd), "run")

\* an invocation of the tool: "running", "exited" or "failed" (never started)
Invocation(pair, cmd, state) ==
    [pair |-> pair, cmd |-> cmd, state |-> state, returncode |-> 0,
     stderr |-> <<>>]

\* line 43, first half: subprocess.run starts the process, or raises OSError
BulkSpawn(f, err) ==
    IF err # "none"
    THEN Raise([f EXCEPT !.invs = Append(@, Invocation(f.i, f.cmd, "failed"))],
               err)
    ELSE [f EXCEPT !.invs = Append(@, Invocation(f.i, f.cmd, "running")),
                   !.pc = "wait"]

\* line 43, second half: the process exits and its output is captured
BulkWait(f, code, stderr) ==
    [f EXCEPT !.invs[Len(f.invs)].state = "exited",
              !.invs[Len(f.invs)].returncode = code,
              !.invs[Len(f.invs)].stderr = stderr,
              !.pc = "exited"]

\* the for loop moves to the next pair unless the body raised
Advance(f) == IF f.pc = "raised" THEN f ELSE [f EXCEPT !.i = @ + 1]

\* the except clause of lines 45-47
HandleCalledProcessError(f, stderr) ==
    IF stderr # <<>> /\ ~Utf8Valid(stderr)
    THEN Raise(f, "UnicodeDecodeError")
    ELSE Advance(LogFunc(f, PairErrorReport(f.i, f.cmd, stderr), "loop"))

\* BulkOutcome that moves on to the next pair without reporting this one
BulkOutcome_Unreported(f) == [f EXCEPT !.i = @ + 1, !.pc = "loop"]

\* lines 43-47: check=True turns a non-zero exit into CalledProcessError
BulkOutcome(f) ==
    LET inv == f.invs[Len(f.invs)] IN
    IF inv.returncode = 0
    THEN Advance(LogFunc(f, CopiedReport(f.i, f.cmd), "loop"))
    ELSE HandleCalledProcessError(f, inv.stderr)

\* the call is over: it returned (its Worker may have ended too) or raised
CallDone(f) == f.pc \in {"returned", "raised", "thread_done"}

----------------------------------------------------------------------------
(* Initial states: a direct call of the library function, or main() *)

NoArgs == [kind |-> "ok", src |-> <<>>, dst |-> <<>>]

\* what argparse makes of the command line: -h, a usage error, or the two
\* options, each absent (<<>>) or holding at least one path (nargs="+")
Argvs ==
    { [kind |-> k, src |-> <<>>, dst |-> <<>>] : k \in {"help", "usage"} }
    \cup { [kind |-> "ok", src |-> s, dst |-> d] :
             s \in SeqsUpTo(InputPaths, MaxN), d \in SeqsUpTo(InputPaths, MaxN) }

GuiInit ==
    /\ src_list = <<>>
    /\ dst_list = <<>>
    /\ run_btn = TRUE
    /\ progress = "none"
    /\ modal = <<>>
    /\ evq = <<>>
    /\ log = ""

InitApi ==
    /\ ppc = "api"
    /\ exitStatus = -1
    /\ toolOnPath = TRUE
    /\ args = NoArgs
    /\ \E s \in SeqsUpTo(InputPaths, MaxN), d \in SeqsUpTo(InputPaths, MaxN),
          lf \in {"print", "callback"} :
          calls = << NewCall("api", s, d, lf) >>
    /\ GuiInit

InitMain ==
    /\ ppc = "parse_args"
    /\ exitStatus = -1
    /\ toolOnPath \in BOOLEAN
    /\ args \in Argvs
    /\ calls = <<>>
    /\ GuiInit

Init == InitApi \/ InitMain

----------------------------------------------------------------------------
(* main, check_kid3_cli, cli_mode *)

Exit(status) ==
    /\ ppc' = "exited"
    /\ exitStatus' = status

\* lines 268-271: parse_args leaves through sys.exit on -h or a usage error
ParseArgs ==
    /\ ppc = "parse_args"
    /\ IF args.kind = "help" THEN Exit(0)
       ELSE IF args.kind = "usage" THEN Exit(2)
       ELSE ppc' = "check_kid3_cli" /\ UNCHANGED exitStatus
    /\ UNCHANGED <<toolOnPath, args, calls, guiVars>>

\* check_kid3_cli that prints the error and returns instead of exiting
check_kid3_cli_PrintOnly ==
    /\ ppc = "check_kid3_cli"
    /\ ppc' = "dispatch"
    /\ UNCHANGED <<exitStatus, toolOnPath, args, calls, guiVars>>

\* lines 12-15, called at line 273
check_kid3_cli ==
    /\ ppc = "check_kid3_cli"
    /\ IF ~toolOnPath THEN Exit(1)
       ELSE ppc' = "dispatch" /\ UNCHANGED exitStatus
    /\ UNCHANGED <<toolOnPath, args, calls, guiVars>>

\* lines 275-280: command-line mode when both options are non-empty, else
\* the window is created and the event loop entered (args is not read again)
Dispatch ==
    /\ ppc = "dispatch"
    /\ IF args.src # <<>> /\ args.dst # <<>>
       THEN ppc' = "cli_mode" /\ UNCHANGED args
       ELSE ppc' = "gui" /\ args' = NoArgs
    /\ UNCHANGED <<exitStatus, toolOnPath, calls, guiVars>>

\* lines 255-263: the default log_func, print, is what the call gets
cli_mode ==
    /\ ppc = "cli_mode"
    /\ IF Len(args.src) # Len(args.dst)
       THEN Exit(1) /\ UNCHANGED calls
       ELSE /\ calls' = Append(calls, NewCall("cli", args.src, args.dst, "print"))
            /\ ppc' = "cli_call"
            /\ UNCHANGED exitStatus
    /\ UNCHANGED <<toolOnPath, args, guiVars>>

\* the call made by cli_mode is over: main returns (status 0), or the fault
\* unwinds through cli_mode and main and the interpreter exits with status 1
CliReturn ==
    /\ ppc = "cli_call"
    /\ calls # <<>>
    /\ CallDone(calls[Len(calls)])
    /\ Exit(IF calls[Len(calls)].pc = "raised" THEN 1 ELSE 0)
    /\ UNCHANGED <<toolOnPath, args, calls, guiVars>>

\* the direct call is over
ApiReturn ==
    /\ ppc = "api"
    /\ CallDone(calls[Len(calls)])
    /\ ppc' = "api_done"
    /\ UNCHANGED <<exitStatus, toolOnPath, args, calls, guiVars>>

----------------------------------------------------------------------------
(* Steps of copy_and_paste_tags_bulk, on the thread that runs the call *)

\* the thread of frame k is running
Scheduled(k) ==
    /\ k \in 1..Len(calls)
    /\ CASE calls[k].owner = "api" -> ppc = "api"
         [] calls[k].owner = "cli" -> ppc = "cli_call"
         [] OTHER -> ppc = "gui"

\* the Worker's lambda forwards each report as a queued log_signal
Forward(f, g) ==
    IF f.log_func = "signal"
    THEN [j \in 1..(Len(g.reports) - Len(f.reports)) |->
             [sig |-> "log", success |-> g.reports[Len(f.reports) + j].success]]
    ELSE <<>>

Step(k, g) ==
    /\ calls' = [calls EXCEPT ![k] = g]
    /\ evq' = evq \o Forward(calls[k], g)
    /\ UNCHANGED <<ppc, exitStatus, toolOnPath, args, src_list, dst_list,
                   run_btn, progress, modal, log>>

Entry(k) == Scheduled(k) /\ calls[k].pc = "entry" /\ Step(k, BulkEntry(calls[k]))

Loop(k) == Scheduled(k) /\ calls[k].pc = "loop" /\ Step(k, BulkLoop(calls[k]))

Build(k) == Scheduled(k) /\ calls[k].pc = "built" /\ Step(k, BulkBuild(calls[k]))

Spawn(k) ==
    /\ Scheduled(k)
    /\ calls[k].pc = "run"
    /\ \E err \in SpawnErrors \cup {"none"} : Step(k, BulkSpawn(calls[k], err))

\* the tool exits; one that exits 0 is taken to have written no diagnostics
ToolExit(k) ==
    /\ Scheduled(k)
    /\ calls[k].pc = "wait"
    /\ \E code \in ExitCodes, stderr \in StderrBytes :
          /\ code = 0 => stderr = <<>>
          /\ Step(k, BulkWait(calls[k], code, stderr))

Outcome(k) == Scheduled(k) /\ calls[k].pc = "exited" /\ Step(k, BulkOutcome(calls[k]))

----------------------------------------------------------------------------
(* The GUI: TagCopyApp on the main thread, Worker threads beside it *)

\* the window takes input: no message box is up and the window-modal
\* progress dialog is not showing
WindowActive == ppc = "gui" /\ modal = <<>> /\ progress # "shown"

\* the paths a user can drop: dropEvent keeps those that exist, resolved
DropPaths == { Resolve(p) : p \in InputPaths }

InList(l, p) == \E j \in 1..Len(l) : l[j] = p

RemoveAt(l, j) == SubSeq(l, 1, j - 1) \o SubSeq(l, j + 1, Len(l))

\* lines 98-115: a dropped path is added unless the list already shows it
DropEvent ==
    /\ WindowActive
    /\ \E p \in DropPaths :
         \/ /\ ~InList(src_list, p)
            /\ src_list' = Append(src_list, p)
            /\ UNCHANGED dst_list
         \/ /\ ~InList(dst_list, p)
            /\ dst_list' = Append(dst_list, p)
            /\ UNCHANGED src_list
    /\ UNCHANGED <<ppc, exitStatus, toolOnPath, args, calls, run_btn, progress,
                   modal, evq, log>>

\* lines 144-146 (Delete key, or the move out of a list at lines 124-126)
RemoveSelected ==
    /\ WindowActive
    /\ \/ \E j \in 1..Len(src_list) :
            src_list' = RemoveAt(src_list, j) /\ UNCHANGED dst_list
       \/ \E j \in 1..Len(dst_list) :
            dst_list' = RemoveAt(dst_list, j) /\ UNCHANGED src_list
    /\ UNCHANGED <<ppc, exitStatus, toolOnPath, args, calls, run_btn, progress,
                   modal, evq, log>>

\* lines 200-203
clear_all ==
    /\ WindowActive
    /\ src_list' = <<>>
    /\ dst_list' = <<>>
    /\ log' = ""
    /\ UNCHANGED <<ppc, exitStatus, toolOnPath, args, calls, run_btn, progress,
                   modal, evq>>

\* line 197
Colour(success) == IF success THEN "green" ELSE "red"

\* a Worker whose thread is still inside run()
LiveWorker(f) == f.pc \notin {"thread_done", "raised"}

\* run_copy that forgets to disable the run button
RunButtonLeftEnabled == TRUE

\* line 217: the state run_copy leaves the run button in
RunButtonAfterLaunch == FALSE

\* lines 205-230: a click on the enabled run button
run_copy ==
    /\ WindowActive
    /\ run_btn
    /\ LET src == ResolveAll(src_list)
           dst == ResolveAll(dst_list)
       IN IF Len(src) # Len(dst)
          THEN /\ modal' = Append(modal, "warning")
               /\ UNCHANGED <<calls, run_btn, progress, log>>
          ELSE /\ Len(SelectSeq(calls, LiveWorker)) < MaxWorkers
               /\ log' = Colour(TRUE)
               /\ run_btn' = RunButtonAfterLaunch
               /\ progress' = "shown"
               /\ calls' = Append(SelectSeq(calls, LiveWorker),
                                  NewCall("worker", src, dst, "signal"))
               /\ UNCHANGED modal
    /\ UNCHANGED <<ppc, exitStatus, toolOnPath, args, src_list, dst_list, evq>>

\* line 65: run() is back from the call and emits finished_signal; a fault
\* raised by the call ends the thread before this line
WorkerFinished(k) ==
    /\ Scheduled(k)
    /\ calls[k].owner = "worker"
    /\ calls[k].pc = "returned"
    /\ calls' = [calls EXCEPT ![k].pc = "thread_done"]
    /\ evq' = Append(evq, [sig |-> "finished", success |-> TRUE])
    /\ UNCHANGED <<ppc, exitStatus, toolOnPath, args, src_list, dst_list,
                   run_btn, progress, modal, log>>

\* lines 196-198, as the slot of a queued log_signal
log_line ==
    /\ ppc = "gui"
    /\ evq # <<>>
    /\ Head(evq).sig = "log"
    /\ log' = Colour(Head(evq).success)
    /\ evq' = Tail(evq)
    /\ UNCHANGED <<ppc, exitStatus, toolOnPath, args, calls, src_list, dst_list,
                   run_btn, progress, modal>>

\* lines 232-237, as the slot of a queued finished_signal
copy_finished ==
    /\ ppc = "gui"
    /\ evq # <<>>
    /\ Head(evq).sig = "finished"
    /\ evq' = Tail(evq)
    /\ progress' = "none"
    /\ run_btn' = TRUE
    /\ modal' = Append(modal, "done")
    /\ UNCHANGED <<ppc, exitStatus, toolOnPath, args, calls, src_list, dst_list,
                   log>>

\* the user closes the innermost message box
DismissBox ==
    /\ ppc = "gui"
    /\ modal # <<>>
    /\ modal' = Front(modal)
    /\ UNCHANGED <<ppc, exitStatus, toolOnPath, args, calls, src_list, dst_list,
                   run_btn, progress, evq, log>>

\* lines 220-224: the progress dialog has no cancel button, but like any
\* dialog it is hidden by Escape or by its close box
DismissProgress ==
    /\ ppc = "gui"
    /\ modal = <<>>
    /\ progress = "shown"
    /\ progress' = "hidden"
    /\ UNCHANGED <<ppc, exitStatus, toolOnPath, args, calls, src_list, dst_list,
                   run_btn, modal, evq, log>>

\* line 281: the window is closed, app.exec() returns 0 and the process
\* ends, its widgets and threads with it
Quit ==
    /\ WindowActive
    /\ Exit(0)
    /\ calls' = <<>>
    /\ src_list' = <<>>
    /\ dst_list' = <<>>
    /\ run_btn' = TRUE
    /\ progress' = "none"
    /\ modal' = <<>>
    /\ evq' = <<>>
    /\ log' = ""
    /\ UNCHANGED <<toolOnPath, args>>

----------------------------------------------------------------------------

Next ==
    \/ ParseArgs
    \/ check_kid3_cli
    \/ Dispatch
    \/ cli_mode
    \/ CliReturn
    \/ ApiReturn
    \/ \E k \in 1..Len(calls) : Entry(k)
    \/ \E k \in 1..Len(calls) : Loop(k)
    \/ \E k \in 1..Len(calls) : Build(k)
    \/ \E k \in 1..Len(calls) : Spawn(k)
    \/ \E k \in 1..Len(calls) : ToolExit(k)
    \/ \E k \in 1..Len(calls) : Outcome(k)
    \/ DropEvent
    \/ RemoveSelected
    \/ clear_all
    \/ run_copy
    \/ \E k \in 1..Len(calls) : WorkerFinished(k)
    \/ log_line
    \/ copy_finished
    \/ DismissBox
    \/ DismissProgress
    \/ Quit

Spec == Init /\ [][Next]_vars

\* a started thread keeps running: every step of a Worker's run(), the exit
\* of the tool it waits for included, is eventually taken
WorkerThread ==
    \E k \in 1..Len(calls) :
        /\ calls[k].owner = "worker"
        /\ \/ Entry(k) \/ Loop(k) \/ Build(k) \/ Spawn(k) \/ ToolExit(k)
           \/ Outcome(k) \/ WorkerFinished(k)

\* the Qt event loop delivers every queued signal to its slot
EventLoop == log_line \/ copy_finished

\* the program under the scheduling the threads and the event loop provide;
\* nothing is assumed of the user
FairSpec == Spec /\ WF_vars(WorkerThread) /\ WF_vars(EventLoop)

----------------------------------------------------------------------------
(* Vocabulary of the properties *)

IsTerminal(r) == r.kind \in {"copied", "error_pair"}

IsInfo(r) == r.kind \in {"copying", "running"}

Terminals(f) == SelectSeq(f.reports, IsTerminal)

Infos(f) == SelectSeq(f.reports, IsInfo)

EqualLength(f) == Len(f.source_files) = Len(f.dest_files)

Pairs(f) == Len(f.source_files)

Frames == { calls[k] : k \in 1..Len(calls) }

\* the three emissions of a pair, in the order the loop body makes them
KindAt(j) == CASE j % 3 = 1 -> {"copying"}
               [] j % 3 = 2 -> {"running"}
               [] OTHER -> {"copied", "error_pair"}

PairAt(j) == ((j - 1) \div 3) + 1

----------------------------------------------------------------------------
(* C1 *)

----------------------------------------------------------------------------
(* C2 *)

\* C2: a call with sequences of different lengths emits exactly one report,
\* with success = false, invokes the tool for no pair, and returns without
\* raising.
C2_MismatchReportedOnce ==
    \A f \in Frames :
        (CallDone(f) /\ ~EqualLength(f)) =>
            /\ f.pc # "raised"
            /\ Len(f.reports) = 1
            /\ ~f.reports[1].success
            /\ f.invs = <<>>

----------------------------------------------------------------------------
(* C3 *)

\* C3: whatever way the invocation of a pair fails (non-zero exit, tool not
\* found, permission error on spawn), a call given a callback that takes
\* (message, success) reports a failure for that pair, goes on with the
\* remaining pairs and lets no fault out: once over, it has returned with a
\* terminal report for every pair, a failure report for each failed one.
C3_InvocationFailureReported ==
    \A f \in Frames :
        (CallDone(f) /\ EqualLength(f) /\ AcceptsSuccessKeyword(f.log_func)) =>
            /\ f.pc # "raised"
            /\ Len(Terminals(f)) = Pairs(f)
            /\ \A j \in 1..Len(f.invs) :
                   (f.invs[j].state = "failed" \/ f.invs[j].returncode # 0) =>
                       \E r \in 1..Len(f.reports) :
                           /\ f.reports[r].kind = "error_pair"
                           /\ f.reports[r].pair = f.invs[j].pair
                           /\ ~f.reports[r].success

----------------------------------------------------------------------------
(* C4 *)

\* C4: the call cli_mode makes for an equal-length batch, with the default
\* log_func, lets no fault of a report call out, and once it has returned the
\* tool has been invoked once per pair and every report has been printed.
C4_CliBatchRuns ==
    \A f \in Frames :
        (f.owner = "cli" /\ CallDone(f)) =>
            /\ f.fault # "TypeError"
            /\ f.pc = "returned" =>
                   /\ Len(f.invs) = Pairs(f)
                   /\ Len(f.reports) = 3 * Pairs(f)

----------------------------------------------------------------------------
(* C5 *)

\* C5: in an equal-length batch, once the invocation of pair i has exited,
\* with status zero or not, and i is not the last pair, the call does not end
\* without the tool having been invoked for pair i+1.
C5_NextPairInvoked ==
    \A f \in Frames :
        (CallDone(f) /\ EqualLength(f)) =>
            \A j \in 1..Len(f.invs) :
                (f.invs[j].state = "exited" /\ f.invs[j].pair < Pairs(f)) =>
                    \E n \in 1..Len(f.invs) : f.invs[n].pair = f.invs[j].pair + 1

----------------------------------------------------------------------------
(* C6 *)

\* the call is past the try statement of the pair of invocation inv
Settled(f, inv) == CallDone(f) \/ f.i > inv.pair

\* C6: an invocation that exits 0 yields a terminal report with success =
\* true; one that exits non-zero yields a terminal report with success =
\* false that carries the captured stderr text when there is some, and a
\* message synthesized from the failed command when there is none.
C6_OutcomeReported ==
    \A f \in Frames :
        \A j \in 1..Len(f.invs) :
            (f.invs[j].state = "exited" /\ Settled(f, f.invs[j])) =>
                \E n \in 1..Len(f.reports) :
                    LET r == f.reports[n]
                        inv == f.invs[j]
                    IN /\ IsTerminal(r)
                       /\ r.pair = inv.pair
                       /\ r.success = (inv.returncode = 0)
                       /\ (inv.returncode # 0 /\ inv.stderr # <<>>) =>
                              r.text = Utf8Decode(inv.stderr) /\ ~r.synth
                       /\ (inv.returncode # 0 /\ inv.stderr = <<>>) =>
                              r.synth /\ r.cmd = inv.cmd

----------------------------------------------------------------------------
(* C7 *)

\* C7: pairs are processed in input order and one at a time.  The k-th
\* invocation of a call is for the k-th pair of the input sequences, every
\* earlier invocation has exited and the terminal reports of all earlier
\* pairs have been emitted before it starts, and the k-th terminal report is
\* the one of pair k.
C7_InOrderNoOverlap ==
    \A f \in Frames :
        /\ \A j \in 1..Len(f.invs) :
               /\ f.invs[j].pair = j
               /\ f.invs[j].cmd = BuildCmd(Resolve(f.source_files[j]),
                                           Resolve(f.dest_files[j]))
               /\ j < Len(f.invs) => f.invs[j].state = "exited"
               /\ Len(Terminals(f)) >= j - 1
        /\ \A j \in 1..Len(Terminals(f)) : Terminals(f)[j].pair = j
        /\ Len(Terminals(f)) <= Len(f.invs)

\* the tool runs for the second pair, the first pair's report is out
C7_Witness ==
    \E f \in Frames :
        /\ Len(f.invs) = 2
        /\ f.invs[2].state = "running"
        /\ Len(Terminals(f)) = 1
        /\ f.source_files[1] # f.source_files[2]

----------------------------------------------------------------------------
(* C8 *)

\* the seven commands of the pair (s, d), spelled out
SevenCommands(c, s, d) ==
    /\ Len(c) = 7
    /\ c[1] = [verb |-> "cd", operand |-> Parent(s)]
    /\ c[2] = [verb |-> "select", operand |-> <<Name(s)>>]
    /\ c[3] = [verb |-> "copy", operand |-> <<>>]
    /\ c[4] = [verb |-> "cd", operand |-> Parent(d)]
    /\ c[5] = [verb |-> "select", operand |-> <<Name(d)>>]
    /\ c[6] = [verb |-> "paste", operand |-> <<>>]
    /\ c[7] = [verb |-> "save", operand |-> <<>>]

\* C8: when a call for an equal-length batch is over, the tool has been run
\* exactly once for every pair, as a process of its own, with the seven
\* commands cd, select, copy, cd, select, paste, save built from the
\* positionally matching source and destination.
C8_OncePerPair ==
    \A f \in Frames :
        (CallDone(f) /\ EqualLength(f)) =>
            /\ Len(f.invs) = Pairs(f)
            /\ \A j \in 1..Len(f.invs) :
                   /\ f.invs[j].pair = j
                   /\ f.invs[j].state = "exited"
                   /\ f.invs[j].cmd.prog = "kid3-cli"
                   /\ SevenCommands(f.invs[j].cmd.commands,
                                    Resolve(f.source_files[j]),
                                    Resolve(f.dest_files[j]))

----------------------------------------------------------------------------
(* C9 *)

\* C9: with the tool missing from the search path, main never gets past
\* check_kid3_cli: it makes no call of copy_and_paste_tags_bulk and creates
\* no window, and in either mode (the options parsed) the process ends with
\* status 1.
C9_ToolCheckedFirst ==
    /\ ~toolOnPath =>
           /\ ppc \in {"parse_args", "check_kid3_cli", "exited"}
           /\ calls = <<>>
    /\ (~toolOnPath /\ ppc = "exited" /\ args.kind = "ok") => exitStatus = 1
    /\ (\E f \in Frames : f.owner \in {"cli", "worker"}) => toolOnPath

\* command-line mode asked for, tool missing, process ended with status 1
C9_Witness ==
    /\ ~toolOnPath
    /\ ppc = "exited"
    /\ exitStatus = 1
    /\ args.src # <<>>
    /\ Len(args.src) = Len(args.dst)

----------------------------------------------------------------------------
(* C10 *)

Running(f) == \E j \in 1..Len(f.invs) : f.invs[j].state = "running"

WorkerCalls == { k \in 1..Len(calls) : calls[k].owner = "worker" }

FinishedPending == \E j \in 1..Len(evq) : evq[j].sig = "finished"

\* C10: in the GUI at most one Worker is inside run() and at most one tool
\* invocation is in progress; from the start of a Worker until copy_finished
\* has run, the run button is disabled.
C10_OneBatchAtATime ==
    /\ Cardinality({ k \in WorkerCalls : Running(calls[k]) }) <= 1
    /\ Cardinality({ k \in WorkerCalls : LiveWorker(calls[k]) }) <= 1
    /\ ((\E k \in WorkerCalls : calls[k].pc # "thread_done") \/ FinishedPending)
           => ~run_btn

\* the tool is running, the progress dialog has been dismissed and the lists
\* are of equal length: only the disabled button stands against a second run
C10_Witness ==
    /\ WindowActive
    /\ ~run_btn
    /\ \E k \in WorkerCalls : Running(calls[k])
    /\ Len(src_list) = Len(dst_list)

----------------------------------------------------------------------------
(* C11 *)

\* no Worker thread is alive and no signal waits for delivery
GuiQuiet ==
    /\ ppc = "gui"
    /\ \A k \in WorkerCalls : ~LiveWorker(calls[k])
    /\ evq = <<>>

\* C11: a batch started by run_copy completes whatever the outcome of its
\* invocations: once its Worker thread has ended and every queued signal has
\* been delivered, copy_finished has run, so the progress dialog is closed
\* and the run button is enabled again.
C11_BatchCompletes == GuiQuiet => (run_btn /\ progress = "none")

\* C11, as a temporal property: while the window lives, a disabled run
\* button is eventually enabled again.
C11_RunButtonReenabled == [](~run_btn => <>(run_btn \/ ppc = "exited"))

====
